---- MODULE Spec2Model ----
(***************************************************************************)
(* Model of pybamm/models/components/electrolyte.py: the Electrolyte       *)
(* object (its attribute dictionary), the calls a simulation driver makes  *)
(* on it, and the numpy array arithmetic the calls perform.                *)
(*                                                                         *)
(* Arrays are sequences of integers; the result of the true division       *)
(* 1 / gamma_dl is kept exact as a reduced fraction <<num, den>>.          *)
(* gamma_dl takes powers of two only, for which the floating-point         *)
(* reciprocal and product of the code are exact as well.                   *)
(***************************************************************************)
EXTENDS Integers, Sequences, FiniteSets, TLC

(***************************************************************************)
(* Bounds of the model.                                                    *)
(***************************************************************************)
\* longest field (number of cells of a domain)
MaxLen == 2
\* largest entry of a field or of a boundary value
MaxVal == 1
\* latest simulation time the driver asks for
MaxT == 2

Vals == 0 .. MaxVal
\* the two extreme entries, used for the secondary fields e, j and the bcs
ExtVals == {0, MaxVal}

SeqsOver(S, n) == [1 .. n -> S]
FieldsOver(S) == UNION {SeqsOver(S, n) : n \in 1 .. MaxLen}
\* concentration fields
Fields == FieldsOver(Vals)
\* potential and interfacial-current fields
AuxFields == FieldsOver(ExtVals)
\* a boundary pair: two length-1 arrays
BcPairs == {<<(<<l>>), (<<r>>)>> : l \in ExtVals, r \in ExtVals}
Times == 0 .. MaxT

(***************************************************************************)
(* numpy on one-dimensional arrays.                                        *)
(***************************************************************************)
\* -a
Neg(a) == [k \in 1 .. Len(a) |-> -a[k]]
\* scalar * a
Scale(x, a) == [k \in 1 .. Len(a) |-> x * a[k]]
\* np.ones_like(a)
ones_like(a) == [k \in 1 .. Len(a) |-> 1]
\* np.concatenate([a, b, c])
concatenate(a, b, c) == a \o b \o c
\* np.diff(a): one entry fewer (none for arrays shorter than 2)
diff(a) == [k \in 1 .. (IF Len(a) = 0 THEN 0 ELSE Len(a) - 1) |-> a[k + 1] - a[k]]

\* broadcasting of two 1-D shapes: equal, or one of them 1
Broadcastable(a, b) == Len(a) = Len(b) \/ Len(a) = 1 \/ Len(b) = 1
BroadcastLen(a, b) == IF Len(a) = 1 THEN Len(b) ELSE Len(a)
At(a, k) == IF Len(a) = 1 THEN a[1] ELSE a[k]
\* a + b and a - b where Broadcastable(a, b); ValueError otherwise
Add(a, b) == [k \in 1 .. BroadcastLen(a, b) |-> At(a, k) + At(b, k)]
Sub(a, b) == [k \in 1 .. BroadcastLen(a, b) |-> At(a, k) - At(b, k)]

\* exact fractions for true division
Abs(x) == IF x < 0 THEN -x ELSE x
RECURSIVE GCD(_, _)
GCD(a, b) == IF b = 0 THEN a ELSE GCD(b, a % b)
Frac(n, d) == LET g == GCD(Abs(n), d) IN <<n \div g, d \div g>>
\* (1 / g) * a, entry by entry
ScaleRecip(g, a) == [k \in 1 .. Len(a) |-> Frac(a[k], g)]

(***************************************************************************)
(* Results of a call: a returned value or the exception that ended it.     *)
(***************************************************************************)
Ok(v) == [status |-> "ok", value |-> v]
Raise(kind) == [status |-> "raise", value |-> kind]
Returned(r) == r.status = "ok"
Raised(r, kind) == r.status = "raise" /\ r.value = kind

(***************************************************************************)
(* The collaborators: operator, parameter and mesh contexts.               *)
(***************************************************************************)
Domains == {"xcn", "xc", "xcp"}

\* A domain's operator pair on a uniform grid of inverse spacing w.
\* kind "interior": grad gives the n-1 interior faces (the shapes of the
\* docstrings: c of shape (n,) gives a result of shape (n,) resp. (n+1,)).
\* kind "faces": grad gives n+1 face values (zero at the two outer faces).
grad(op, y) ==
    IF op.kind = "interior" THEN Scale(op.w, diff(y))
    ELSE concatenate(<<0>>, Scale(op.w, diff(y)), <<0>>)
\* div: m face values -> m-1 cell values
div(op, N) == Scale(op.w, diff(N))

\* domain identifiers a caller may pass: the three domains and an unknown one
DomainArgs == Domains \cup {"xs"}

OperatorsOf(kind) ==
    [d \in Domains |->
        [kind |-> kind, w |-> CASE d = "xcn" -> 1 [] d = "xc" -> 2 [] d = "xcp" -> 3]]
OperatorContexts == {OperatorsOf("interior"), OperatorsOf("faces")}

\* applied current as a function of time
icell(p, t) == IF p.icell = "const" THEN 5 ELSE 2 * t + 1
\* open-circuit potentials
U_Pb(p, c) == 3 - 2 * c
U_PbO2(p, c) == 5 + c

ParamContexts ==
    { [c0 |-> 1, s |-> 2, gamma_dl_n |-> 1, gamma_dl_p |-> 2, icell |-> "const"],
      [c0 |-> 2, s |-> 1, gamma_dl_n |-> 4, gamma_dl_p |-> 2, icell |-> "ramp"] }

\* cell-centre coordinates of a domain with n cells
Coords(n) == [k \in 1 .. n |-> 2 * k - 1]
MeshOf(n, a, b) == [xc |-> Coords(n), xcn |-> Coords(a), xcp |-> Coords(b)]
MeshContexts == {MeshOf(MaxLen, 1, MaxLen), MeshOf(MaxLen, MaxLen, 1)}

(***************************************************************************)
(* State.                                                                  *)
(***************************************************************************)
VARIABLES
    self,     \* the object's attribute dictionary: attribute name -> value
    pc,       \* the driver: "idle", or "returned" holding the last result
    last,     \* the call that just returned: op, args, result
    run,      \* a cation_conservation evaluation in progress (stepwise)
    held,     \* the flux pair a caller keeps from bcs_cation_flux
    now       \* the driver's simulation time

vars == <<self, pc, last, run, held, now>>

AttrNames == {"param", "operators", "mesh"}
NoAttrs == [a \in {} |-> {}]
HasAttr(obj, a) == a \in DOMAIN obj
Configured(obj) == AttrNames \subseteq DOMAIN obj

NoCall == [op |-> "none"]
NoRun == [at |-> "none"]
NoPair == <<>>

Init ==
    /\ self = NoAttrs
    /\ pc = "idle"
    /\ last = NoCall
    /\ run = NoRun
    /\ held = NoPair
    /\ now = 0

(***************************************************************************)
(* set_simulation: assigns the three attributes.                           *)
(***************************************************************************)
Assigned(param, operators, mesh) ==
    [a \in AttrNames |->
        CASE a = "param" -> param [] a = "operators" -> operators [] a = "mesh" -> mesh]

set_simulation ==
    /\ pc = "idle"
    /\ \E param \in ParamContexts, operators \in OperatorContexts, mesh \in MeshContexts :
          self' = Assigned(param, operators, mesh)
    /\ pc' = "returned"
    /\ last' = [op |-> "set_simulation", result |-> Ok(<<>>)]
    /\ UNCHANGED <<run, held, now>>

(***************************************************************************)
(* initial_conditions                                                      *)
(***************************************************************************)
\* variant: the open-circuit potentials taken at zero concentration
initial_conditions_at_zero(obj) ==
    IF ~HasAttr(obj, "param") \/ ~HasAttr(obj, "mesh") THEN Raise("AttributeError")
    ELSE Ok([c |-> Scale(obj.param.c0, ones_like(obj.mesh.xc)),
             en |-> Scale(U_Pb(obj.param, 0), ones_like(obj.mesh.xcn)),
             ep |-> Scale(U_PbO2(obj.param, 0), ones_like(obj.mesh.xcp))])

initial_conditions_result(obj) ==
    IF ~HasAttr(obj, "param") \/ ~HasAttr(obj, "mesh") THEN Raise("AttributeError")
    ELSE LET c0 == Scale(obj.param.c0, ones_like(obj.mesh.xc))
             en0 == Scale(U_Pb(obj.param, obj.param.c0), ones_like(obj.mesh.xcn))
             ep0 == Scale(U_PbO2(obj.param, obj.param.c0), ones_like(obj.mesh.xcp))
         IN Ok([c |-> c0, en |-> en0, ep |-> ep0])

initial_conditions ==
    /\ pc = "idle"
    /\ pc' = "returned"
    /\ last' = [op |-> "initial_conditions", result |-> initial_conditions_result(self)]
    /\ UNCHANGED <<self, run, held, now>>

(***************************************************************************)
(* cation_conservation                                                     *)
(***************************************************************************)
\* variant: the interior flux taken with the sign of the gradient
cation_flux_same_sign(obj, c, flux_bcs) ==
    IF ~HasAttr(obj, "operators") THEN Raise("AttributeError")
    ELSE IF "xc" \notin DOMAIN obj.operators THEN Raise("KeyError")
    ELSE Ok(concatenate(flux_bcs[1], grad(obj.operators["xc"], c), flux_bcs[2]))

\* lines 63-67: the face-valued flux N
cation_flux(obj, c, flux_bcs) ==
    IF ~HasAttr(obj, "operators") THEN Raise("AttributeError")
    ELSE IF "xc" \notin DOMAIN obj.operators THEN Raise("KeyError")
    ELSE LET N_internal == Neg(grad(obj.operators["xc"], c))
             flux_bc_left == flux_bcs[1]
             flux_bc_right == flux_bcs[2]
         IN Ok(concatenate(flux_bc_left, N_internal, flux_bc_right))

\* line 70: the time derivative from N
cation_derivative(obj, N, j) ==
    IF ~HasAttr(obj, "operators") \/ ~HasAttr(obj, "param") THEN Raise("AttributeError")
    ELSE IF "xc" \notin DOMAIN obj.operators THEN Raise("KeyError")
    ELSE LET minus_div == Neg(div(obj.operators["xc"], N))
             source == Scale(obj.param.s, j)
         IN IF Broadcastable(minus_div, source) THEN Ok(Add(minus_div, source))
            ELSE Raise("ValueError")

cation_conservation_result(obj, c, j, flux_bcs) ==
    LET N == cation_flux(obj, c, flux_bcs)
    IN IF Returned(N) THEN cation_derivative(obj, N.value, j) ELSE N

cation_conservation ==
    /\ pc = "idle"
    /\ pc' = "returned"
    /\ \E c \in Fields, j \in AuxFields, flux_bcs \in BcPairs :
          last' = [op |-> "cation_conservation", c |-> c, j |-> j, bcs |-> flux_bcs,
                   result |-> cation_conservation_result(self, c, j, flux_bcs)]
    /\ UNCHANGED <<self, run, held, now>>

(***************************************************************************)
(* bcs_cation_flux                                                         *)
(***************************************************************************)
\* variant: the pair is built once and the same arrays are handed out again
bcs_cation_flux_shared(obj) ==
    IF held # NoPair THEN Ok(held) ELSE Ok(<<(<<0>>), (<<0>>)>>)

bcs_cation_flux_result(obj) ==
    LET flux_bc_left == <<0>>
        flux_bc_right == <<0>>
    IN Ok(<<flux_bc_left, flux_bc_right>>)

bcs_cation_flux ==
    /\ pc = "idle"
    /\ pc' = "returned"
    /\ last' = [op |-> "bcs_cation_flux", result |-> bcs_cation_flux_result(self)]
    /\ UNCHANGED <<self, run, held, now>>

(***************************************************************************)
(* macinnes                                                                *)
(***************************************************************************)
kappa_over_c == 1
kappa == 1

\* variant: the right boundary value is not appended
macinnes_no_rbc(obj, domain, c, e, current_bcs) ==
    IF ~HasAttr(obj, "operators") THEN Raise("AttributeError")
    ELSE IF domain \notin DOMAIN obj.operators THEN Raise("KeyError")
    ELSE LET gc == grad(obj.operators[domain], c)
             ge == grad(obj.operators[domain], e)
         IN IF Broadcastable(gc, ge) THEN Ok(current_bcs[1] \o Add(gc, ge))
            ELSE Raise("ValueError")

macinnes_result(obj, domain, c, e, current_bcs) ==
    IF ~HasAttr(obj, "operators") THEN Raise("AttributeError")
    ELSE IF domain \notin DOMAIN obj.operators THEN Raise("KeyError")
    ELSE LET operators == obj.operators[domain]
             gc == Scale(kappa_over_c, grad(operators, c))
             ge == Scale(kappa, grad(operators, e))
             lbc == current_bcs[1]
             rbc == current_bcs[2]
         IN IF Broadcastable(gc, ge) THEN Ok(concatenate(lbc, Add(gc, ge), rbc))
            ELSE Raise("ValueError")

macinnes ==
    /\ pc = "idle"
    /\ pc' = "returned"
    /\ \E domain \in DomainArgs, c \in Fields, e \in AuxFields, current_bcs \in BcPairs :
          last' = [op |-> "macinnes", domain |-> domain, c |-> c, e |-> e,
                   bcs |-> current_bcs,
                   result |-> macinnes_result(self, domain, c, e, current_bcs)]
    /\ UNCHANGED <<self, run, held, now>>

(***************************************************************************)
(* current_conservation                                                    *)
(***************************************************************************)
\* lines 113-116: the local gamma_dl is bound for the two electrodes only
gamma_dl_bound(domain) == domain \in {"xcn", "xcp"}
\* variant: the two electrodes' constants exchanged
gamma_dl_exchanged(obj, domain) ==
    IF domain = "xcn" THEN obj.param.gamma_dl_p ELSE obj.param.gamma_dl_n

gamma_dl_of(obj, domain) ==
    IF domain = "xcn" THEN obj.param.gamma_dl_n ELSE obj.param.gamma_dl_p

current_conservation_result(obj, domain, c, e, j, current_bcs) ==
    LET i == macinnes_result(obj, domain, c, e, current_bcs)
    IN IF ~Returned(i) THEN i
       ELSE IF domain \in {"xcn", "xcp"} /\ ~HasAttr(obj, "param")
                THEN Raise("AttributeError")
       ELSE IF ~gamma_dl_bound(domain) THEN Raise("UnboundLocalError")
       ELSE LET d == div(obj.operators[domain], i.value)
            IN IF Broadcastable(d, j)
                   THEN Ok(ScaleRecip(gamma_dl_of(obj, domain), Sub(d, j)))
               ELSE Raise("ValueError")

\* c and e are drawn with one length here; macinnes itself is called with
\* every pair of lengths
current_conservation ==
    /\ pc = "idle"
    /\ pc' = "returned"
    /\ \E domain \in DomainArgs, c \in Fields, j \in AuxFields, current_bcs \in BcPairs :
          \E e \in SeqsOver(ExtVals, Len(c)) :
             last' = [op |-> "current_conservation", domain |-> domain, c |-> c,
                      e |-> e, j |-> j, bcs |-> current_bcs,
                      result |-> current_conservation_result(self, domain, c, e, j,
                                                             current_bcs)]
    /\ UNCHANGED <<self, run, held, now>>

(***************************************************************************)
(* bcs_current                                                             *)
(***************************************************************************)
\* variant: the applied current on the right face in both electrodes
bcs_current_right(obj, domain, t) ==
    IF domain \in {"xcn", "xcp"} THEN
        IF ~HasAttr(obj, "param") THEN Raise("AttributeError")
        ELSE Ok(<<(<<0>>), (<<icell(obj.param, t)>>)>>)
    ELSE Raise("UnboundLocalError")

\* variant: no applied current while no parameters are assigned
bcs_current_default(obj, domain, t) ==
    IF domain \in {"xcn", "xcp"} THEN
        LET i == IF HasAttr(obj, "param") THEN icell(obj.param, t) ELSE 0
        IN IF domain = "xcn" THEN Ok(<<(<<0>>), (<<i>>)>>) ELSE Ok(<<(<<i>>), (<<0>>)>>)
    ELSE Raise("UnboundLocalError")

bcs_current_result(obj, domain, t) ==
    IF domain = "xcn" THEN
        IF ~HasAttr(obj, "param") THEN Raise("AttributeError")
        ELSE Ok(<<(<<0>>), (<<icell(obj.param, t)>>)>>)
    ELSE IF domain = "xcp" THEN
        IF ~HasAttr(obj, "param") THEN Raise("AttributeError")
        ELSE Ok(<<(<<icell(obj.param, t)>>), (<<0>>)>>)
    ELSE Raise("UnboundLocalError")

bcs_current ==
    /\ pc = "idle"
    /\ pc' = "returned"
    /\ \E domain \in DomainArgs, t \in Times :
          last' = [op |-> "bcs_current", domain |-> domain, t |-> t,
                   result |-> bcs_current_result(self, domain, t)]
    /\ UNCHANGED <<self, run, held, now>>

\* the driver takes the result and goes on
Return ==
    /\ pc = "returned"
    /\ pc' = "idle"
    /\ last' = NoCall
    /\ UNCHANGED <<self, run, held, now>>

Next ==
    \/ set_simulation
    \/ initial_conditions
    \/ cation_conservation
    \/ bcs_cation_flux
    \/ macinnes
    \/ current_conservation
    \/ bcs_current
    \/ Return

Spec == Init /\ [][Next]_vars

(***************************************************************************)
(* A second caller evaluating cation_conservation line by line while the   *)
(* driver goes on calling set_simulation on the same object.               *)
(***************************************************************************)
\* lines 63-67: reads self.operators, keeps c, j and N as locals
\* (called as the driver does, with the pair of bcs_cation_flux and c, j of
\* one length)
cation_begin ==
    /\ run.at = "none"
    /\ \E c \in Fields : \E j \in SeqsOver(ExtVals, Len(c)) :
          LET flux_bcs == bcs_cation_flux_result(self).value
              N == cation_flux(self, c, flux_bcs)
          IN run' = IF Returned(N)
                        THEN [at |-> "line70", c |-> c, j |-> j, bcs |-> flux_bcs,
                              N |-> N.value, seen63 |-> self]
                    ELSE [at |-> "done", c |-> c, j |-> j, bcs |-> flux_bcs,
                          seen63 |-> self, seen70 |-> self, result |-> N]
    /\ UNCHANGED <<self, pc, last, held, now>>

\* variant: the flux is stored on the object as a side effect
cation_finish_storing ==
    /\ run.at = "line70"
    /\ run' = [at |-> "done", c |-> run.c, j |-> run.j, bcs |-> run.bcs,
               seen63 |-> run.seen63, seen70 |-> self,
               result |-> cation_derivative(self, run.N, run.j)]
    /\ self' = [a \in DOMAIN self \cup {"N"} |-> IF a = "N" THEN run.N ELSE self[a]]
    /\ UNCHANGED <<pc, last, held, now>>

\* line 70-72: reads self.operators and self.param again, returns
cation_finish ==
    /\ run.at = "line70"
    /\ run' = [at |-> "done", c |-> run.c, j |-> run.j, bcs |-> run.bcs,
               seen63 |-> run.seen63, seen70 |-> self,
               result |-> cation_derivative(self, run.N, run.j)]
    /\ UNCHANGED <<self, pc, last, held, now>>

\* the second caller takes its result
cation_take ==
    /\ run.at = "done"
    /\ run' = NoRun
    /\ UNCHANGED <<self, pc, last, held, now>>

NextConc ==
    \/ set_simulation
    \/ Return
    \/ cation_begin
    \/ cation_finish
    \/ cation_take

SpecConc == Init /\ [][NextConc]_vars

(***************************************************************************)
(* A caller that keeps the pair bcs_cation_flux returned, writes into its  *)
(* arrays, and asks again at later simulation times.                       *)
(***************************************************************************)
\* the caller keeps the returned pair of arrays
keep_pair ==
    /\ pc = "returned"
    /\ last.op = "bcs_cation_flux"
    /\ Returned(last.result)
    /\ held' = last.result.value
    /\ UNCHANGED <<self, pc, last, run, now>>

\* the caller writes v into the array on one side of the pair it keeps
write_pair ==
    /\ held # NoPair
    /\ \E side \in {1, 2}, v \in ExtVals : held' = [held EXCEPT ![side] = <<v>>]
    /\ UNCHANGED <<self, pc, last, run, now>>

\* the driver's time advances
tick ==
    /\ now < MaxT
    /\ now' = now + 1
    /\ UNCHANGED <<self, pc, last, run, held>>

NextFlux ==
    \/ set_simulation
    \/ initial_conditions
    \/ bcs_cation_flux
    \/ bcs_current
    \/ Return
    \/ keep_pair
    \/ write_pair
    \/ tick

SpecFlux == Init /\ [][NextFlux]_vars
(***************************************************************************)
(* Properties.                                                             *)
(***************************************************************************)
Electrodes == {"xcn", "xcp"}
ZeroPair == <<(<<0>>), (<<0>>)>>
AllZero(a) == \A k \in 1 .. Len(a) : a[k] = 0
\* entry k of an operand of a broadcast sum
Pick(a, k) == IF Len(a) = 1 THEN a[1] ELSE a[k]

\* C1: cation_conservation(c, j, (L, R)) with c and j of one length returns
\* -div_xc(L ++ (-grad_xc(c)) ++ R) + s*j, entry by entry, with the operators
\* of domain xc; it returns whenever the divergence has the length of j (so
\* always with interior-face gradients), and with j = 0 and (L, R) = (0, 0)
\* the result is the diffusion term alone.
C1_CationConservation ==
    (last.op = "cation_conservation" /\ Configured(self) /\ Len(last.j) = Len(last.c)) =>
        LET xc == self.operators["xc"]
            N == last.bcs[1] \o Neg(grad(xc, last.c)) \o last.bcs[2]
            D == div(xc, N)
            r == last.result
        IN /\ Len(D) = Len(last.j) => Returned(r)
           /\ xc.kind = "interior" => Len(D) = Len(last.c)
           /\ Returned(r) =>
                 /\ Len(r.value) = Len(D)
                 /\ \A k \in 1 .. Len(D) :
                       r.value[k] = -D[k] + self.param.s * Pick(last.j, k)
                 /\ (AllZero(last.j) /\ last.bcs = ZeroPair) =>
                       r.value = Neg(div(xc, <<0>> \o Neg(grad(xc, last.c)) \o <<0>>))

C1_Witness ==
    /\ last.op = "cation_conservation"
    /\ Configured(self)
    /\ self.operators["xc"].kind = "interior"
    /\ Len(last.c) = Len(self.mesh.xc)
    /\ Len(last.j) = Len(last.c)
    /\ Len(last.c) >= 2
    /\ ~AllZero(last.j)
    /\ last.bcs[1] # <<0>>
    /\ Returned(last.result)
    /\ ~AllZero(diff(last.c))

\* C2: for an electrode domain d and c, e, j of one length,
\* current_conservation(d, c, e, j, bcs) returns (1/gamma_dl) * (div_d(i) - j)
\* where i is what macinnes(d, c, e, bcs) returns and gamma_dl is gamma_dl_n
\* for xcn and gamma_dl_p for xcp.
C2_CurrentConservation ==
    (/\ last.op = "current_conservation"
     /\ Configured(self)
     /\ last.domain \in Electrodes
     /\ Len(last.e) = Len(last.c)
     /\ Len(last.j) = Len(last.c)) =>
        LET i == macinnes_result(self, last.domain, last.c, last.e, last.bcs)
            gamma == IF last.domain = "xcn" THEN self.param.gamma_dl_n
                     ELSE self.param.gamma_dl_p
            r == last.result
        IN /\ Returned(i)
           /\ LET D == div(self.operators[last.domain], i.value)
              IN /\ Len(D) = Len(last.j) => Returned(r)
                 /\ Returned(r) =>
                       /\ Len(r.value) = Len(D)
                       /\ \A k \in 1 .. Len(D) :
                             /\ r.value[k][2] > 0
                             /\ r.value[k][1] * gamma
                                   = (D[k] - Pick(last.j, k)) * r.value[k][2]

C2_Witness ==
    /\ last.op = "current_conservation"
    /\ Configured(self)
    /\ last.domain = "xcp"
    /\ self.param.gamma_dl_n # self.param.gamma_dl_p
    /\ self.operators["xcp"].kind = "interior"
    /\ Len(last.c) = Len(self.mesh.xcp)
    /\ Len(last.e) = Len(last.c)
    /\ Len(last.j) = Len(last.c)
    /\ Len(last.c) >= 2
    /\ Returned(last.result)
    /\ \E k \in 1 .. Len(last.result.value) : last.result.value[k][2] > 1

C4_BcsCurrent ==
    (last.op = "bcs_current" /\ Configured(self) /\ last.domain \in Electrodes) =>
        LET i == icell(self.param, last.t)
            other == IF last.domain = "xcn" THEN "xcp" ELSE "xcn"
            mirror == bcs_current_result(self, other, last.t)
            r == last.result
        IN /\ last.domain = "xcn" => r = Ok(<<(<<0>>), (<<i>>)>>)
           /\ last.domain = "xcp" => r = Ok(<<(<<i>>), (<<0>>)>>)
           /\ Returned(mirror)
           /\ mirror.value[1] = r.value[2]
           /\ mirror.value[2] = r.value[1]
           /\ self.param.icell = "const" =>
                 \A t \in Times : bcs_current_result(self, last.domain, t) = r

C4_Witness ==
    /\ last.op = "bcs_current"
    /\ Configured(self)
    /\ last.domain = "xcp"
    /\ self.param.icell = "ramp"
    /\ last.t > 0
    /\ Returned(last.result)

\* C5: a per-domain operation called with a domain outside {xcn, xcp} ends
\* in an error and returns no value.
C5_InvalidDomainRejected ==
    (/\ last.op \in {"current_conservation", "macinnes", "bcs_current"}
     /\ last.domain \notin Electrodes) =>
        ~Returned(last.result)

\* C6: a conservation law or macinnes called with field arguments of
\* different lengths ends in a shape-mismatch error and returns no field.
C6_ShapeMismatchRejected ==
    Configured(self) =>
        /\ (last.op = "cation_conservation" /\ Len(last.j) # Len(last.c)) =>
              Raised(last.result, "ValueError")
        /\ (last.op = "macinnes" /\ last.domain \in Electrodes
               /\ Len(last.e) # Len(last.c)) =>
              Raised(last.result, "ValueError")
        /\ (last.op = "current_conservation" /\ last.domain \in Electrodes
               /\ (Len(last.e) # Len(last.c) \/ Len(last.j) # Len(last.c))) =>
              Raised(last.result, "ValueError")

EvalOps ==
    {"initial_conditions", "cation_conservation", "bcs_cation_flux",
     "current_conservation", "macinnes", "bcs_current"}

\* C7 as stated: before set_simulation every evaluation operation ends in the
\* unconfigured-context error.
C7_AllRaiseUnconfigured ==
    (~Configured(self) /\ last.op \in EvalOps) =>
        Raised(last.result, "AttributeError")

\* C7 amended: before set_simulation, initial_conditions, cation_conservation,
\* current_conservation, macinnes and bcs_current return no value: each ends
\* in the attribute error of the missing context, except bcs_current with a
\* domain outside {xcn, xcp}, which ends in the unbound-local error;
\* bcs_cation_flux reads no context and returns (0, 0).
C7_ContextReadersRaise ==
    (~Configured(self) /\ last.op \in EvalOps) =>
        /\ last.op = "bcs_cation_flux" => last.result = Ok(ZeroPair)
        /\ last.op # "bcs_cation_flux" => ~Returned(last.result)
        /\ (last.op = "bcs_current" /\ last.domain \notin Electrodes) =>
              Raised(last.result, "UnboundLocalError")
        /\ (last.op \notin {"bcs_cation_flux", "bcs_current"}
               \/ (last.op = "bcs_current" /\ last.domain \in Electrodes)) =>
              Raised(last.result, "AttributeError")

C7_Witness ==
    /\ ~Configured(self)
    /\ last.op = "bcs_current"
    /\ last.domain = "xcn"
    /\ Raised(last.result, "AttributeError")

\* C8: initial_conditions() returns exactly the entries c, en, ep: c is c0 on
\* every cell of mesh.xc, en is U_Pb(c0) on every cell of mesh.xcn and ep is
\* U_PbO2(c0) on every cell of mesh.xcp.
C8_InitialConditions ==
    (last.op = "initial_conditions" /\ Configured(self)) =>
        LET p == self.param
            m == self.mesh
            v == last.result.value
        IN /\ Returned(last.result)
           /\ DOMAIN v = {"c", "en", "ep"}
           /\ Len(v.c) = Len(m.xc) /\ \A k \in 1 .. Len(v.c) : v.c[k] = p.c0
           /\ Len(v.en) = Len(m.xcn)
           /\ \A k \in 1 .. Len(v.en) : v.en[k] = U_Pb(p, p.c0)
           /\ Len(v.ep) = Len(m.xcp)
           /\ \A k \in 1 .. Len(v.ep) : v.ep[k] = U_PbO2(p, p.c0)

C8_Witness ==
    /\ last.op = "initial_conditions"
    /\ Configured(self)
    /\ Returned(last.result)
    /\ Len(self.mesh.xcn) # Len(self.mesh.xcp)
    /\ self.param.c0 > 1

\* C9 as stated: once assigned, the contexts are never modified, and an
\* evaluation reads the same context at its first and at its last step.
C9_NeverModified ==
    /\ [][Configured(self) => self' = self]_vars
    /\ [](run.at = "done" => run.seen63 = run.seen70)

\* C9 amended: no evaluation changes the stored contexts; only set_simulation
\* does, and it replaces them each time it is called.  An evaluation that
\* read the same context at its first and last step returns what its
\* arguments and that context determine.
C9_OnlySetSimulationAssigns ==
    /\ [][self' # self =>
            /\ pc = "idle"
            /\ last'.op = "set_simulation"
            /\ run' = run
            /\ \E p \in ParamContexts, o \in OperatorContexts, m \in MeshContexts :
                  self' = Assigned(p, o, m)]_vars
    /\ []((run.at = "done" /\ run.seen63 = run.seen70) =>
            run.result = cation_conservation_result(run.seen63, run.c, run.j, run.bcs))

C9_Witness ==
    /\ run.at = "done"
    /\ Configured(run.seen63)
    /\ run.seen63 = run.seen70
    /\ Returned(run.result)
    /\ self # run.seen70
    /\ last.op = "set_simulation"

\* C10: bcs_cation_flux() returns the pair (0, 0) of two length-1 arrays at
\* every simulation time, after any calls, and whatever a caller wrote into
\* a pair returned before.
C10_AlwaysNoFlux ==
    last.op = "bcs_cation_flux" => last.result = Ok(<<(<<0>>), (<<0>>)>>)

C10_Witness ==
    /\ last.op = "bcs_cation_flux"
    /\ held # NoPair
    /\ held # ZeroPair
    /\ now > 0
    /\ Configured(self)
====
